---- MODULE Spec2Model ----
(***************************************************************************)
(* Model of bridge-server/rns_bridge.py: the RNSBridge process.            *)
(*                                                                         *)
(* Four threads of control share the RNSBridge object:                     *)
(*   - the main control path (run),                                        *)
(*   - the periodic announcer (announce_loop),                             *)
(*   - the input reader (listen_stdin, which dispatches handle_command),   *)
(*   - the stack's callback delivery (packet_received, link_established).  *)
(* Strings that the code inspects character by character (address hashes)  *)
(* are sequences of one-character strings; bytes are sequences of 0..255.  *)
(* The timestamp field of an event (time.time()) is left out, and so are   *)
(* the log lines on stderr. stdout is kept as the number of event lines    *)
(* written and the lines of the latest write. An interrupt from the        *)
(* keyboard (lines 561-562) is not modelled.                               *)
(*                                                                         *)
(* Spec takes the handling of one input line, and one callback, as one     *)
(* step each. StepSpec is the same program with the call of                *)
(* handle_command and the statements of the callbacks as steps of their    *)
(* own, the callbacks on two threads of the stack. RerunSpec is startup,   *)
(* run after run on one identity path. FairSpec is Spec with the main path *)
(* and the announcer scheduled fairly. TransportSpec is the main path and  *)
(* the reader with a host that sends add_rnode and remove_rnode only.      *)
(***************************************************************************)
EXTENDS Integers, Sequences, FiniteSets, TLC

\* ------------------------------------------------------------------ bounds
\* Number of inputs the environment delivers in one run: lines the host
\* writes to stdin, callbacks the stack delivers, elapsed announce intervals.
MaxInputs == 2
\* Number of times the bridge is started again on the same identity path.
MaxRuns == 2
\* Number of commands of a host that manages transports only.
MaxCommands == 3

\* ------------------------------------------------------- program constants
DefaultBaudRate == 115200
DefaultFrequency == 915000000
DefaultBandwidth == 125000
DefaultTxPower == 17
DefaultSpreadingFactor == 7
DefaultCodingRate == 5
\* shutdown_event.wait(600) and time.sleep(3), in seconds
AnnounceInterval == 600
SettleDelay == 3

\* --------------------------------------------------------- hex conversions
HexDigits == <<"0", "1", "2", "3", "4", "5", "6", "7",
               "8", "9", "a", "b", "c", "d", "e", "f">>
UpperDigits == <<"0", "1", "2", "3", "4", "5", "6", "7",
                 "8", "9", "A", "B", "C", "D", "E", "F">>

IsHexChar(c) == \E i \in 1..16 : c = HexDigits[i] \/ c = UpperDigits[i]

HexValue(c) == (CHOOSE i \in 1..16 : c = HexDigits[i] \/ c = UpperDigits[i]) - 1

\* bytes.fromhex(s) raises ValueError unless s is an even number of hex digits
\* (the inputs drawn here hold no whitespace, which fromhex would skip).
FromHexOk(s) ==
    /\ Len(s) % 2 = 0
    /\ \A i \in 1..Len(s) : IsHexChar(s[i])

\* bytes.fromhex(s) for a string that parses
FromHex(s) ==
    [i \in 1..(Len(s) \div 2) |->
        16 * HexValue(s[2 * i - 1]) + HexValue(s[2 * i])]

\* RNS.hexrep(b, delimit=False): two lowercase hex digits per byte
HexRep(b) ==
    [i \in 1..(2 * Len(b)) |->
        IF i % 2 = 1 THEN HexDigits[(b[(i + 1) \div 2] \div 16) + 1]
                     ELSE HexDigits[(b[i \div 2] % 16) + 1]]

\* ------------------------------------------------------------------ events
\* json.dumps({"type": msg_type, "data": data, "timestamp": ...})
Event(msg_type, data) == [type |-> msg_type, data |-> data]

\* the empty data object {}
EmptyData == [x \in {} |-> 0]

\* ------------------------------------------------------------------- state
VARIABLES
    mainPc,            \* position of the main control path in run()
    exitCode,          \* process exit code, read once mainPc is "stopped" or "exited"
    annPc,             \* position of the announcer thread
    stdinPc,           \* position of the input reader thread
    running,           \* self.running
    shutdown_event,    \* self.shutdown_event is set
    identity,          \* self.identity (<<>> before it is loaded or created)
    identityFile,      \* identity held by the identity file (<<>> if absent)
    callbacks,         \* callbacks registered on the local destination
    destinations,      \* self.destinations: hash string -> hash bytes
    links,             \* self.links: hash string -> link id
    rnode_interfaces,  \* self.rnode_interfaces: transport records, in insertion order
    outCount,          \* number of event lines written to stdout so far
    outTail,           \* the event lines of the most recent write to stdout
    outPartial,        \* stdout holds bytes that are not whole event lines
    linesRead,         \* number of lines the reader has taken from stdin
    lastLine,          \* the line most recently read while running
    lastEmit,          \* the events written while that line was processed
    lastReturn,        \* what add/remove_rnode_transport returned for it
    malformedSeen,     \* a malformed line has been read while running
    notFoundPort,      \* port of the latest remove_rnode that found no transport
    detachFailed,      \* port whose detach raised and that was not removed since
    shutdownSeen,      \* a shutdown command has been processed
    failedStep,        \* the startup step that raised ("none" if none did)
    cbCount,           \* callbacks delivered so far
    intervals,         \* intervals elapsed so far
    dispatching,       \* calls of handle_command that have not returned
    cbPc,              \* position of each stack thread inside a callback
    cbArg,             \* what that thread's callback was called with
    prevIdentity,      \* identity of the latest load-or-create on this path
    runs               \* earlier runs of the bridge on this identity path

vars == <<mainPc, exitCode, annPc, stdinPc, running, shutdown_event, identity,
          identityFile, callbacks, destinations, links, rnode_interfaces,
          outCount, outTail, linesRead, lastLine, lastEmit, lastReturn,
          malformedSeen, notFoundPort, shutdownSeen, failedStep, cbCount,
          intervals, outPartial, dispatching, cbPc, cbArg, prevIdentity, runs,
          detachFailed>>

\* the registry maps
registry == <<destinations, links, rnode_interfaces>>

\* the stdout stream
output == <<outCount, outTail, outPartial>>

\* what the main control path alone changes
mainVars == <<mainPc, exitCode, failedStep>>
startupVars == <<identity, identityFile, callbacks>>

\* what the reader alone changes
readerVars == <<stdinPc, linesRead, lastLine, lastEmit, lastReturn,
                malformedSeen, notFoundPort, shutdownSeen, detachFailed>>

\* what the announcer alone changes
announcerVars == <<annPc, intervals>>

\* what the stepwise reader and the stack's threads alone change
stepVars == <<dispatching, cbPc, cbArg>>

\* what outlives one run of the process, besides the identity file
runVars == <<prevIdentity, runs>>

\* the empty map {}
EmptyMap == [x \in {} |-> 0]

\* d[k] = v added to (or replaced in) the map d
MapPut(d, k, v) == [x \in (DOMAIN d) \cup {k} |-> IF x = k THEN v ELSE d[x]]

\* the identity RNS.Identity() generates (fresh key material: another one in
\* every run), and the one a file may already hold
NewIdentity == <<17 + runs>>
StoredIdentity == <<34>>

\* self.destination.hash, derived from the identity and the fixed namespace
LocalHash(id) == <<(id[1] + 1) % 256>>

\* ------------------------------------------------------------ input lines
\* A line of stdin. kind: "blank", "notjson" (json.loads raises), "nonobject"
\* (valid JSON, not an object) or "object"; an object carries its type and the
\* fields of its data. An absent field reads as the empty value, which the
\* truth tests of handle_command treat alike.
Line(kind, type, dest_hash, text, port, config) ==
    [kind |-> kind, type |-> type, destination_hash |-> dest_hash,
     text |-> text, port |-> port, config |-> config]

NoConfig == [x \in {} |-> 0]

Malformed(kind) == Line(kind, "", <<>>, "", "", NoConfig)
Command(type) == Line("object", type, <<>>, "", "", NoConfig)

NoLine == Malformed("none")

\* destination_hash values: absent, lowercase hex, the same in upper case,
\* and a string that is not hex
HashInputs == {<<>>, <<"a", "b">>, <<"A", "B">>, <<"a", "g">>}
PortInputs == {"", "/dev/ttyUSB0", "/dev/ttyUSB1"}
ConfigInputs == {NoConfig, [frequency |-> 868000000]}

MalformedLines == {Malformed("notjson"), Malformed("nonobject")}

\* send with both fields, with no text, with no destination_hash
SendLines ==
    {Line("object", "send", h, "hello", "", NoConfig) : h \in HashInputs}
    \cup {Line("object", "send", <<"a", "b">>, "", "", NoConfig)}
\* add_rnode with a port and a config, and with no port
AddLines ==
    {Line("object", "add_rnode", <<>>, "", p, c) :
        p \in PortInputs \ {""}, c \in ConfigInputs}
    \cup {Line("object", "add_rnode", <<>>, "", "", NoConfig)}
RemoveLines ==
    {Line("object", "remove_rnode", <<>>, "", p, NoConfig) : p \in PortInputs}

Lines ==
    {Malformed("blank")} \cup MalformedLines
    \cup {Command(t) : t \in {"announce", "ping", "shutdown", "list_transports",
                              "frobnicate"}}
    \cup SendLines \cup AddLines \cup RemoveLines

\* What the stack does in the calls one handler makes. For send:
\* the Destination constructor raises, Packet/encode/send raises, send returns
\* no receipt, or send returns a receipt. For the others: the call raises or not.
SendOutcomes == {"create_raises", "send_raises", "no_receipt", "receipt"}
CallOutcomes == {"raises", "ok"}

OutcomesFor(line) ==
    IF line.kind # "object" THEN {"ok"}
    ELSE IF line.type = "send" THEN SendOutcomes
    ELSE IF line.type \in {"announce", "add_rnode", "remove_rnode"} THEN CallOutcomes
    ELSE {"ok"}

\* the threads of the stack that call the registered callbacks
StackThreads == {1, 2}

\* thread t is free to run a callback; the threads are interchangeable, so the
\* stack is taken to use the first free one
FreeThread(t) ==
    /\ cbPc[t] = "idle"
    /\ \A u \in StackThreads : u < t => cbPc[u] # "idle"

\* what a callback is called with: the packet's payload, or the link's peer
\* hash and link id
Call(kind, data, peer, link_id) ==
    [kind |-> kind, data |-> data, peer |-> peer, link_id |-> link_id]

NoCall == Call("none", <<>>, <<>>, <<>>)

\* __init__ (lines 57-77); the identity file may or may not exist already
Init ==
    /\ mainPc = "uninitialized"
    /\ exitCode = 0
    /\ annPc = "notstarted"
    /\ stdinPc = "notstarted"
    /\ running = FALSE
    /\ shutdown_event = FALSE
    /\ identity = <<>>
    /\ identityFile \in {<<>>, StoredIdentity}
    /\ callbacks = {}
    /\ destinations = EmptyMap
    /\ links = EmptyMap
    /\ rnode_interfaces = <<>>
    /\ outCount = 0
    /\ outTail = <<>>
    /\ linesRead = 0
    /\ lastLine = NoLine
    /\ lastEmit = <<>>
    /\ lastReturn = "none"
    /\ malformedSeen = FALSE
    /\ notFoundPort = ""
    /\ detachFailed = ""
    /\ shutdownSeen = FALSE
    /\ failedStep = "none"
    /\ cbCount = 0
    /\ intervals = 0
    /\ outPartial = FALSE
    /\ dispatching = 0
    /\ cbPc = [t \in StackThreads |-> "idle"]
    /\ cbArg = [t \in StackThreads |-> NoCall]
    /\ prevIdentity = <<>>
    /\ runs = 0

\* inputs the environment has delivered so far
Inputs == linesRead + cbCount + intervals

\* the process has not exited: its (daemon) threads can still take steps
Alive == mainPc \notin {"stopped", "exited"}

\* the documents of evs written with print-like calls: the document, then the
\* newline by a write of its own, between which another thread can write
Write_in_two(evs) ==
    /\ outCount' = outCount + Len(evs)
    /\ outTail' = IF evs = <<>> THEN outTail ELSE evs
    /\ outPartial' = (outPartial \/ evs # <<>>)

\* the event lines evs are appended to stdout, each by one
\* sys.stdout.write(message + "\n") (line 134): whole lines, which leave the
\* stream made of whole lines if it was
Write(evs) ==
    /\ outCount' = outCount + Len(evs)
    /\ outTail' = IF evs = <<>> THEN outTail ELSE evs
    /\ outPartial' = outPartial

\* send_message (lines 130-137): one line appended to stdout
send_message(msg_type, data) == Write(<<Event(msg_type, data)>>)

\* ---------------------------------------------------------- the handlers
\* Each handler is an operator from the state it reads to the state it leaves
\* and the events it writes (out), so that the reader's action below is the
\* whole dispatch of one line.

\* receipt.hash of the receipt packet.send() returns
ReceiptHash == <<7>>

\* send_packet reporting only a confirmed delivery: every failure is logged
\* and no event is written
send_packet_silent(dests, dest_hash, text, oc) ==
    IF FromHexOk(dest_hash) /\ oc = "receipt"
    THEN [destinations |-> MapPut(dests, dest_hash, FromHex(dest_hash)),
          out |-> <<Event("send_success",
                          [destination_hash |-> dest_hash,
                           packet_id |-> HexRep(ReceiptHash)])>>]
    ELSE [destinations |-> dests, out |-> <<>>]

\* send_packet (lines 251-296)
send_packet(dests, dest_hash, text, oc) ==
    LET failed(d) ==
            [destinations |-> d,
             out |-> <<Event("send_failed",
                             [destination_hash |-> dest_hash,
                              error |-> "exception"])>>]
        cached == dest_hash \in DOMAIN dests
        d1 == IF cached THEN dests
              ELSE MapPut(dests, dest_hash, FromHex(dest_hash))
    IN  IF ~FromHexOk(dest_hash) THEN failed(dests)
        ELSE IF ~cached /\ oc = "create_raises" THEN failed(dests)
        ELSE IF oc \in {"create_raises", "send_raises"} THEN failed(d1)
        ELSE IF oc = "receipt"
             THEN [destinations |-> d1,
                   out |-> <<Event("send_success",
                                   [destination_hash |-> dest_hash,
                                    packet_id |-> HexRep(ReceiptHash)])>>]
             ELSE [destinations |-> d1,
                   out |-> <<Event("send_failed",
                                   [destination_hash |-> dest_hash,
                                    error |-> "No receipt received"])>>]

\* announce (lines 298-307)
announce(id, oc) ==
    IF oc = "raises" THEN <<>>
    ELSE <<Event("announce_sent", [destination_hash |-> HexRep(LocalHash(id))])>>

\* config.get(key, default) if config else default
ConfigGet(config, key, default) ==
    IF key \in DOMAIN config THEN config[key] ELSE default

\* interface_config (lines 320-328)
InterfaceConfig(port_path, config) ==
    [port |-> port_path,
     speed |-> ConfigGet(config, "baudRate", DefaultBaudRate),
     frequency |-> ConfigGet(config, "frequency", DefaultFrequency),
     bandwidth |-> ConfigGet(config, "bandwidth", DefaultBandwidth),
     txpower |-> ConfigGet(config, "txPower", DefaultTxPower),
     spreadingfactor |-> ConfigGet(config, "spreadingFactor", DefaultSpreadingFactor),
     codingrate |-> ConfigGet(config, "codingRate", DefaultCodingRate)]

\* the ports tracked in self.rnode_interfaces
Ports(rn) == {rn[i].port : i \in 1..Len(rn)}

\* add_rnode_transport without the test of lines 312-314: the interface is
\* created again and the record of the port replaced
add_rnode_transport_replacing(rn, port_path, config, oc) ==
    IF oc = "raises"
    THEN [rnode_interfaces |-> rn,
          out |-> <<Event("transport_error",
                          [port |-> port_path, error |-> "exception"])>>,
          ret |-> "False"]
    ELSE LET ic == InterfaceConfig(port_path, config)
         IN  [rnode_interfaces |->
                  Append(SelectSeq(rn, LAMBDA t : t.port # port_path),
                         [port |-> port_path,
                          interface |-> port_path,
                          config |-> ic,
                          messages_sent |-> 0,
                          messages_received |-> 0,
                          connected |-> TRUE]),
              out |-> <<Event("transport_added",
                              [type |-> "rnode", port |-> port_path,
                               config |-> ic])>>,
              ret |-> "True"]

\* add_rnode_transport entering the port in the registry before it creates
\* the interface, so that a failed creation leaves the entry behind
add_rnode_transport_storing_first(rn, port_path, config, oc) ==
    LET ic == InterfaceConfig(port_path, config)
        stored == Append(rn, [port |-> port_path,
                              interface |-> port_path,
                              config |-> ic,
                              messages_sent |-> 0,
                              messages_received |-> 0,
                              connected |-> TRUE])
    IN  IF port_path \in Ports(rn)
        THEN [rnode_interfaces |-> rn, out |-> <<>>, ret |-> "False"]
        ELSE IF oc = "raises"
        THEN [rnode_interfaces |-> stored,
              out |-> <<Event("transport_error",
                              [port |-> port_path, error |-> "exception"])>>,
              ret |-> "False"]
        ELSE [rnode_interfaces |-> stored,
              out |-> <<Event("transport_added",
                              [type |-> "rnode", port |-> port_path,
                               config |-> ic])>>,
              ret |-> "True"]

\* add_rnode_transport (lines 309-370)
add_rnode_transport(rn, port_path, config, oc) ==
    IF port_path \in Ports(rn)
    THEN [rnode_interfaces |-> rn, out |-> <<>>, ret |-> "False"]
    ELSE IF oc = "raises"
    THEN [rnode_interfaces |-> rn,
          out |-> <<Event("transport_error",
                          [port |-> port_path, error |-> "exception"])>>,
          ret |-> "False"]
    ELSE LET ic == InterfaceConfig(port_path, config)
         IN  [rnode_interfaces |->
                  Append(rn, [port |-> port_path,
                              interface |-> port_path,
                              config |-> ic,
                              messages_sent |-> 0,
                              messages_received |-> 0,
                              connected |-> TRUE]),
              out |-> <<Event("transport_added",
                              [type |-> "rnode", port |-> port_path,
                               config |-> ic])>>,
              ret |-> "True"]

\* remove_rnode_transport without the test of lines 375-377, detaching with
\* a default: an unknown port is reported removed
remove_rnode_transport_lenient(rn, port_path, oc) ==
    IF oc = "raises"
    THEN [rnode_interfaces |-> rn, out |-> <<>>, ret |-> "False"]
    ELSE [rnode_interfaces |-> SelectSeq(rn, LAMBDA t : t.port # port_path),
          out |-> <<Event("transport_removed",
                          [type |-> "rnode", port |-> port_path])>>,
          ret |-> "True"]

\* remove_rnode_transport deleting the entry before it detaches the interface
remove_rnode_transport_deleting_first(rn, port_path, oc) ==
    IF port_path \notin Ports(rn)
    THEN [rnode_interfaces |-> rn, out |-> <<>>, ret |-> "False"]
    ELSE IF oc = "raises"
    THEN [rnode_interfaces |-> SelectSeq(rn, LAMBDA t : t.port # port_path),
          out |-> <<>>, ret |-> "False"]
    ELSE [rnode_interfaces |-> SelectSeq(rn, LAMBDA t : t.port # port_path),
          out |-> <<Event("transport_removed",
                          [type |-> "rnode", port |-> port_path])>>,
          ret |-> "True"]

\* remove_rnode_transport (lines 372-401)
remove_rnode_transport(rn, port_path, oc) ==
    IF port_path \notin Ports(rn)
    THEN [rnode_interfaces |-> rn, out |-> <<>>, ret |-> "False"]
    ELSE IF oc = "raises"
    THEN [rnode_interfaces |-> rn, out |-> <<>>, ret |-> "False"]
    ELSE [rnode_interfaces |-> SelectSeq(rn, LAMBDA t : t.port # port_path),
          out |-> <<Event("transport_removed",
                          [type |-> "rnode", port |-> port_path])>>,
          ret |-> "True"]

\* list_transports (lines 403-429)
list_transports(rn) ==
    LET transports ==
            [i \in 1..Len(rn) |->
                [type |-> "rnode",
                 port |-> rn[i].port,
                 connected |-> rn[i].connected,
                 messages_sent |-> rn[i].messages_sent,
                 messages_received |-> rn[i].messages_received,
                 config |-> rn[i].config]]
    IN  <<Event("transports_list",
                [transports |-> transports, total |-> Len(transports)])>>

\* what a handler that does nothing leaves
Unchanged(run, ev, dests, rn) ==
    [running |-> run, shutdown_event |-> ev, destinations |-> dests,
     rnode_interfaces |-> rn, out |-> <<>>, ret |-> "none"]

\* the if/elif chain of handle_command (lines 437-482) on a JSON object: the
\* state it leaves, the events it writes and what the transport operation
\* returned
HandleObject(command, oc, run, ev, dests, rn, id) ==
    LET same == Unchanged(run, ev, dests, rn)
    IN  IF command.type = "send"
        THEN IF command.destination_hash # <<>> /\ command.text # ""
             THEN LET r == send_packet(dests, command.destination_hash,
                                       command.text, oc)
                  IN  [same EXCEPT !.destinations = r.destinations, !.out = r.out]
             ELSE same
        ELSE IF command.type = "announce"
        THEN [same EXCEPT !.out = announce(id, oc)]
        ELSE IF command.type = "ping"
        THEN [same EXCEPT !.out = <<Event("pong", EmptyData)>>]
        ELSE IF command.type = "shutdown"
        THEN [same EXCEPT !.running = FALSE, !.shutdown_event = TRUE]
        ELSE IF command.type = "add_rnode"
        THEN IF command.port # ""
             THEN LET r == add_rnode_transport(rn, command.port, command.config, oc)
                  IN  [same EXCEPT !.rnode_interfaces = r.rnode_interfaces,
                                   !.out = r.out, !.ret = r.ret]
             ELSE same
        ELSE IF command.type = "remove_rnode"
        THEN IF command.port # ""
             THEN LET r == remove_rnode_transport(rn, command.port, oc)
                  IN  [same EXCEPT !.rnode_interfaces = r.rnode_interfaces,
                                   !.out = r.out, !.ret = r.ret]
             ELSE same
        ELSE IF command.type = "list_transports"
        THEN [same EXCEPT !.out = list_transports(rn)]
        ELSE same

\* handle_command answering a value that is not an object with an error event
handle_command_reporting(command, oc, run, ev, dests, rn, id) ==
    IF command.kind # "object"
    THEN [Unchanged(run, ev, dests, rn) EXCEPT
              !.out = <<Event("error", EmptyData)>>]
    ELSE HandleObject(command, oc, run, ev, dests, rn, id)

\* handle_command (lines 431-487): command.get raises on a value that is not
\* an object, which the handler of lines 484-487 logs
handle_command(command, oc, run, ev, dests, rn, id) ==
    IF command.kind # "object" THEN Unchanged(run, ev, dests, rn)
    ELSE HandleObject(command, oc, run, ev, dests, rn, id)

\* the body of the reader's loop for one line read while running (lines
\* 497-507): a blank line is skipped, a line json.loads rejects is logged
ProcessLine(line, oc, run, ev, dests, rn, id) ==
    IF line.kind \in {"blank", "notjson"} THEN Unchanged(run, ev, dests, rn)
    ELSE handle_command(line, oc, run, ev, dests, rn, id)

\* ------------------------------------------------ main: initialize_rns
\* initialize_rns logging the exception and carrying on as if initialised
InitFails_ignored(step) ==
    /\ failedStep' = step
    /\ mainPc' = "initialized"

\* an exception inside initialize_rns (lines 208-213): return False
InitFails(step) ==
    /\ failedStep' = step
    /\ mainPc' = "init_failed"

\* RNS.Reticulum(configdir=...) (line 148)
InitStack ==
    /\ mainPc = "uninitialized"
    /\ \/ mainPc' = "stack_online" /\ UNCHANGED failedStep
       \/ InitFails("stack_init")
    /\ UNCHANGED <<exitCode, startupVars, running, shutdown_event, registry,
                   output, readerVars, announcerVars, cbCount, stepVars,
                   runVars>>

\* an identity generated and written at every start, whatever the file holds
LoadOrCreateIdentity_regenerating ==
    /\ mainPc = "stack_online"
    /\ identity' = NewIdentity
    /\ identityFile' = NewIdentity
    /\ prevIdentity' = NewIdentity
    /\ mainPc' = "identity_ready"
    /\ UNCHANGED <<exitCode, failedStep, callbacks, running, shutdown_event,
                   registry, output, readerVars, announcerVars, cbCount,
                   stepVars, runs>>

\* Identity.from_file, else Identity() and to_file (lines 155-163)
LoadOrCreateIdentity ==
    /\ mainPc = "stack_online"
    /\ \/ /\ identityFile # <<>>
          /\ identity' = identityFile
          /\ prevIdentity' = identityFile
          /\ mainPc' = "identity_ready"
          /\ UNCHANGED <<identityFile, failedStep>>
       \/ /\ identityFile = <<>>
          /\ identity' = NewIdentity
          /\ \/ /\ identityFile' = NewIdentity
                /\ prevIdentity' = NewIdentity
                /\ mainPc' = "identity_ready"
                /\ UNCHANGED failedStep
             \/ /\ InitFails("identity_persist")
                /\ UNCHANGED <<identityFile, prevIdentity>>
       \/ /\ InitFails("identity_load")
          /\ UNCHANGED <<identity, identityFile, prevIdentity>>
    /\ UNCHANGED <<exitCode, callbacks, running, shutdown_event, registry,
                   output, readerVars, announcerVars, cbCount, stepVars, runs>>

\* RNS.Destination(self.identity, IN, SINGLE, ...) (lines 169-175)
CreateDestination ==
    /\ mainPc = "identity_ready"
    /\ \/ mainPc' = "destination_ready" /\ UNCHANGED failedStep
       \/ InitFails("destination_create")
    /\ UNCHANGED <<exitCode, startupVars, running, shutdown_event, registry,
                   output, readerVars, announcerVars, cbCount, stepVars,
                   runVars>>

\* set_packet_callback (line 182)
SetPacketCallback ==
    /\ mainPc = "destination_ready"
    /\ \/ /\ mainPc' = "packet_callback_set"
          /\ callbacks' = callbacks \cup {"packet"}
          /\ UNCHANGED failedStep
       \/ InitFails("callback_registration") /\ UNCHANGED callbacks
    /\ UNCHANGED <<exitCode, identity, identityFile, running, shutdown_event,
                   registry, output, readerVars, announcerVars, cbCount, stepVars, runVars>>

\* set_link_established_callback (line 183)
SetLinkCallback ==
    /\ mainPc = "packet_callback_set"
    /\ \/ /\ mainPc' = "callbacks_registered"
          /\ callbacks' = callbacks \cup {"link"}
          /\ UNCHANGED failedStep
       \/ InitFails("callback_registration") /\ UNCHANGED callbacks
    /\ UNCHANGED <<exitCode, identity, identityFile, running, shutdown_event,
                   registry, output, readerVars, announcerVars, cbCount, stepVars, runVars>>

\* the data of the init event (lines 190-200)
InitData ==
    [identity |-> [hash |-> HexRep(identity), name |-> "Mesh Bridge Node"],
     destination |-> [hash |-> HexRep(LocalHash(identity)),
                      name |-> "meshbridge.messages"]]

\* send_message("init", ...); self.running = True; return True (lines 190-206)
SendInit ==
    /\ mainPc = "callbacks_registered"
    /\ send_message("init", InitData)
    /\ running' = TRUE
    /\ mainPc' = "initialized"
    /\ UNCHANGED <<exitCode, failedStep, startupVars, shutdown_event, registry,
                   readerVars, announcerVars, cbCount, stepVars, runVars>>

\* initialize_rns returned False: sys.exit(1) (lines 529-531); SystemExit is
\* not an Exception, so the handlers of lines 561-567 let it through
ExitFailed ==
    /\ mainPc = "init_failed"
    /\ mainPc' = "exited"
    /\ exitCode' = 1
    /\ UNCHANGED <<failedStep, startupVars, running, shutdown_event, registry,
                   output, readerVars, announcerVars, cbCount, stepVars,
                   runVars>>

\* The process is gone (it exited, or its host ended it) and the bridge is
\* started again with the same identity path: __init__ (lines 57-77) on a
\* new object, writing to a new stdout. Only the identity file outlives the
\* process.
Rerun ==
    /\ runs < MaxRuns
    /\ mainPc # "uninitialized"
    /\ runs' = runs + 1
    /\ mainPc' = "uninitialized"
    /\ exitCode' = 0
    /\ failedStep' = "none"
    /\ identity' = <<>>
    /\ callbacks' = {}
    /\ running' = FALSE
    /\ outCount' = 0
    /\ outTail' = <<>>
    /\ UNCHANGED <<identityFile, prevIdentity, shutdown_event, registry,
                   outPartial, readerVars, announcerVars, cbCount, stepVars>>

\* ------------------------------------------------------------- main: run
\* Thread(target=self.announce_loop).start() (lines 534-535)
StartAnnounceThread ==
    /\ mainPc = "initialized"
    /\ mainPc' = "announce_started"
    /\ annPc' = "while"
    /\ UNCHANGED <<exitCode, failedStep, startupVars, running, shutdown_event,
                   registry, output, readerVars, intervals, cbCount, stepVars, runVars>>

\* Thread(target=self.listen_stdin).start(), then time.sleep(3) begins
\* (lines 538-543)
StartStdinThread ==
    /\ mainPc = "announce_started"
    /\ mainPc' = "settling"
    /\ stdinPc' = "reading"
    /\ UNCHANGED <<exitCode, failedStep, startupVars, running, shutdown_event,
                   registry, output, linesRead, lastLine, lastEmit, lastReturn,
                   malformedSeen, notFoundPort, shutdownSeen, detachFailed,
                   announcerVars, cbCount, stepVars, runVars>>

\* time.sleep(3) returns (line 543)
Settle ==
    /\ mainPc = "settling"
    /\ mainPc' = "settled"
    /\ UNCHANGED <<exitCode, failedStep, startupVars, running, shutdown_event,
                   registry, output, readerVars, announcerVars, cbCount, stepVars, runVars>>

\* the initial self.announce() (line 546)
FirstAnnounce ==
    /\ mainPc = "settled"
    /\ \E oc \in CallOutcomes : Write(announce(identity, oc))
    /\ mainPc' = "loop"
    /\ UNCHANGED <<exitCode, failedStep, startupVars, running, shutdown_event,
                   registry, readerVars, announcerVars, cbCount, stepVars, runVars>>

\* while self.running: time.sleep(0.1) (lines 549-550), left once
\* self.running is False
LeaveLoop ==
    /\ mainPc = "loop"
    /\ ~running
    /\ mainPc' = "shutting_down"
    /\ UNCHANGED <<exitCode, failedStep, startupVars, running, shutdown_event,
                   registry, output, readerVars, announcerVars, cbCount, stepVars, runVars>>

\* run going on to the joins without line 553
SetShutdownEvent_skipped ==
    /\ mainPc = "shutting_down"
    /\ mainPc' = "join_stdin"
    /\ UNCHANGED <<exitCode, failedStep, startupVars, running, shutdown_event,
                   registry, output, readerVars, announcerVars, cbCount,
                   stepVars, runVars>>

\* self.shutdown_event.set() (line 553)
SetShutdownEvent ==
    /\ mainPc = "shutting_down"
    /\ shutdown_event' = TRUE
    /\ mainPc' = "join_stdin"
    /\ UNCHANGED <<exitCode, failedStep, startupVars, running, registry,
                   output, readerVars, announcerVars, cbCount, stepVars,
                   runVars>>

\* stdin_thread.join() with no timeout: returns only once the reader is gone
JoinStdin_unbounded ==
    /\ mainPc = "join_stdin"
    /\ stdinPc \in {"exited", "eof", "error"}
    /\ mainPc' = "join_announce"
    /\ UNCHANGED <<exitCode, failedStep, startupVars, running, shutdown_event,
                   registry, output, readerVars, announcerVars, cbCount, stepVars, runVars>>

\* stdin_thread.join(timeout=1) (line 556): returns when the thread has
\* exited or when the second has passed
JoinStdin ==
    /\ mainPc = "join_stdin"
    /\ mainPc' = "join_announce"
    /\ UNCHANGED <<exitCode, failedStep, startupVars, running, shutdown_event,
                   registry, output, readerVars, announcerVars, cbCount, stepVars, runVars>>

\* announce_thread.join(timeout=1) (line 557); run returns and the process
\* exits with code 0, which ends its daemon threads
JoinAnnounce ==
    /\ mainPc = "join_announce"
    /\ mainPc' = "stopped"
    /\ exitCode' = 0
    /\ UNCHANGED <<failedStep, startupVars, running, shutdown_event, registry,
                   output, readerVars, announcerVars, cbCount, stepVars,
                   runVars>>

\* -------------------------------------------------- announcer: announce_loop
\* while self.running (line 517)
AnnounceWhile ==
    /\ Alive
    /\ annPc = "while"
    /\ annPc' = IF running THEN "wait" ELSE "exited"
    /\ UNCHANGED <<mainVars, startupVars, running, shutdown_event, registry,
                   output, readerVars, intervals, cbCount, stepVars, runVars>>

\* shutdown_event.wait(600) returns True: break (lines 518-519)
AnnounceWaitSignalled ==
    /\ Alive
    /\ annPc = "wait"
    /\ shutdown_event
    /\ annPc' = "exited"
    /\ UNCHANGED <<mainVars, startupVars, running, shutdown_event, registry,
                   output, readerVars, intervals, cbCount, stepVars, runVars>>

\* the main path's time.sleep(3), begun after the announcer was started, has
\* returned; the first interval cannot elapse before that
SettleElapsed == mainPc \notin {"announce_started", "settling"}

\* shutdown_event.wait(600) returns False: the interval elapsed (line 518)
AnnounceWaitElapsed ==
    /\ Alive
    /\ annPc = "wait"
    /\ ~shutdown_event
    /\ Inputs < MaxInputs
    /\ AnnounceInterval > SettleDelay => SettleElapsed
    /\ intervals' = intervals + 1
    /\ annPc' = "check"
    /\ UNCHANGED <<mainVars, startupVars, running, shutdown_event, registry,
                   output, readerVars, cbCount, stepVars, runVars>>

\* if self.running (line 520)
AnnounceCheck ==
    /\ Alive
    /\ annPc = "check"
    /\ annPc' = IF running THEN "announce" ELSE "while"
    /\ UNCHANGED <<mainVars, startupVars, running, shutdown_event, registry,
                   output, readerVars, intervals, cbCount, stepVars, runVars>>

\* self.announce() (line 521)
AnnounceAgain ==
    /\ Alive
    /\ annPc = "announce"
    /\ \E oc \in CallOutcomes : Write(announce(identity, oc))
    /\ annPc' = "while"
    /\ UNCHANGED <<mainVars, startupVars, running, shutdown_event, registry,
                   readerVars, intervals, cbCount, stepVars, runVars>>

\* ---------------------------------------------------- reader: listen_stdin
\* the reader's loop without the test of lines 494-495
ReaderBreaks_never(run) == FALSE

\* if not self.running: break (lines 494-495)
ReaderBreaks(run) == ~run

\* the port whose interface.detach() (line 387) raised in the latest
\* remove_rnode of a tracked port, until a remove_rnode of it succeeds
DetachFailedAfter(line, oc, rn, cur) ==
    IF /\ line.kind = "object"
       /\ line.type = "remove_rnode"
       /\ line.port \in Ports(rn)
    THEN IF oc = "raises" THEN line.port
         ELSE IF cur = line.port THEN "" ELSE cur
    ELSE cur

\* One iteration of "for line in sys.stdin" (lines 493-507): the next line is
\* read and, while running, stripped, parsed and dispatched
ReadLineStep(line, oc) ==
    /\ Alive
    /\ stdinPc = "reading"
    /\ linesRead' = linesRead + 1
    /\ IF ReaderBreaks(running)
       THEN /\ stdinPc' = "exited"
            /\ UNCHANGED <<running, shutdown_event, destinations,
                           rnode_interfaces, output, lastLine, lastEmit,
                           lastReturn, malformedSeen, notFoundPort,
                           shutdownSeen, detachFailed>>
       ELSE LET r == ProcessLine(line, oc, running, shutdown_event,
                                 destinations, rnode_interfaces, identity)
            IN  /\ running' = r.running
                /\ shutdown_event' = r.shutdown_event
                /\ destinations' = r.destinations
                /\ rnode_interfaces' = r.rnode_interfaces
                /\ Write(r.out)
                /\ lastLine' = line
                /\ lastEmit' = r.out
                /\ lastReturn' = r.ret
                /\ malformedSeen' = (malformedSeen \/ line \in MalformedLines)
                /\ notFoundPort' =
                       IF /\ line.kind = "object"
                          /\ line.type = "remove_rnode"
                          /\ line.port \notin Ports(rnode_interfaces)
                       THEN line.port ELSE notFoundPort
                /\ detachFailed' = DetachFailedAfter(line, oc, rnode_interfaces,
                                                     detachFailed)
                /\ shutdownSeen' =
                       (shutdownSeen \/ (line.kind = "object" /\ line.type = "shutdown"))
                /\ UNCHANGED stdinPc
    /\ UNCHANGED <<mainVars, startupVars, links, announcerVars, cbCount, stepVars, runVars>>

\* that iteration, for one of the inputs of a run
ReadLine(line, oc) ==
    /\ Inputs < MaxInputs
    /\ ReadLineStep(line, oc)

\* add_rnode and remove_rnode commands that name a port, adds with no config
TransportLines ==
    {l \in AddLines \cup RemoveLines : l.port # "" /\ l.config = NoConfig}

\* that iteration, for one command of a host that manages transports only
ReadTransportLine(line, oc) ==
    /\ linesRead < MaxCommands
    /\ ReadLineStep(line, oc)

\* sys.stdin reaches end of file: the for loop ends and listen_stdin returns
\* (lines 493, 508)
StdinEOF ==
    /\ Alive
    /\ stdinPc = "reading"
    /\ stdinPc' = "eof"
    /\ UNCHANGED <<mainVars, startupVars, running, shutdown_event, registry,
                   output, linesRead, lastLine, lastEmit, lastReturn,
                   malformedSeen, notFoundPort, shutdownSeen, detachFailed,
                   announcerVars, cbCount, stepVars, runVars>>

\* reading sys.stdin raises: self.running = False (lines 509-511)
StdinError ==
    /\ Alive
    /\ stdinPc = "reading"
    /\ stdinPc' = "error"
    /\ running' = FALSE
    /\ UNCHANGED <<mainVars, startupVars, shutdown_event, registry, output,
                   linesRead, lastLine, lastEmit, lastReturn, malformedSeen,
                   notFoundPort, shutdownSeen, detachFailed, announcerVars,
                   cbCount, stepVars, runVars>>

\* ------------------------------------------------------- stack callbacks
\* payloads and peers the stack delivers
PacketInputs == {<<104, 105>>, <<255>>}
PeerHashes == {<<171>>}
LinkIds == {<<1>>, <<2>>}

\* data.decode('utf-8') succeeds (the payloads drawn are ASCII or invalid)
Utf8Ok(data) == \A i \in 1..Len(data) : data[i] < 128

\* the code point of a hex digit of bytes.hex()
HexCode(n) == IF n < 10 THEN 48 + n ELSE 87 + n

\* text = data.decode('utf-8'), or data.hex() (lines 221-224), as code points
PacketText(data) ==
    IF Utf8Ok(data) THEN data
    ELSE [i \in 1..(2 * Len(data)) |->
            IF i % 2 = 1 THEN HexCode(data[(i + 1) \div 2] \div 16)
                         ELSE HexCode(data[i \div 2] % 16)]

\* packet_received (lines 215-236)
packet_received(id, data) ==
    send_message("message",
                 [from_hash |-> HexRep(LocalHash(id)),
                  to_hash |-> HexRep(LocalHash(id)),
                  text |-> PacketText(data)])

\* the stack delivers a packet to the registered callback
PacketReceived(data) ==
    /\ Alive
    /\ "packet" \in callbacks
    /\ Inputs < MaxInputs
    /\ cbCount' = cbCount + 1
    /\ packet_received(identity, data)
    /\ UNCHANGED <<mainVars, startupVars, running, shutdown_event, registry,
                   readerVars, announcerVars, stepVars, runVars>>

\* link_established (lines 238-249)
link_established(peer, link_id) ==
    /\ links' = MapPut(links, HexRep(peer), link_id)
    /\ send_message("link_established",
                    [destination_hash |-> HexRep(peer),
                     link_id |-> HexRep(link_id)])

\* the stack delivers an established link to the registered callback
LinkEstablished(peer, link_id) ==
    /\ Alive
    /\ "link" \in callbacks
    /\ Inputs < MaxInputs
    /\ cbCount' = cbCount + 1
    /\ link_established(peer, link_id)
    /\ UNCHANGED <<mainVars, startupVars, running, shutdown_event,
                   destinations, rnode_interfaces, readerVars, announcerVars,
                   stepVars, runVars>>

\* ------------------------------------------- reader, one call at a time
\* The reader's loop with the call of handle_command as a step of its own:
\* the line is read and parsed, then handle_command runs and returns.

\* the reader leaving a parsed line to a worker and reading on
TakeLine_handing_over(line) ==
    /\ Alive
    /\ stdinPc = "reading"
    /\ Inputs < MaxInputs
    /\ linesRead' = linesRead + 1
    /\ lastLine' = line
    /\ dispatching' = dispatching + 1
    /\ UNCHANGED <<stdinPc, lastEmit, lastReturn, malformedSeen, notFoundPort,
                   shutdownSeen, detachFailed, mainVars, startupVars, running, shutdown_event,
                   registry, output, announcerVars, cbCount, cbPc, cbArg,
                   runVars>>

\* for line in sys.stdin, up to the call of handle_command (lines 493-503)
TakeLine(line) ==
    /\ Alive
    /\ stdinPc = "reading"
    /\ Inputs < MaxInputs
    /\ linesRead' = linesRead + 1
    /\ IF ReaderBreaks(running)
       THEN /\ stdinPc' = "exited"
            /\ UNCHANGED <<lastLine, lastEmit, lastReturn, malformedSeen,
                           dispatching>>
       ELSE /\ lastLine' = line
            /\ lastEmit' = <<>>
            /\ lastReturn' = "none"
            /\ malformedSeen' = (malformedSeen \/ line \in MalformedLines)
            /\ IF line.kind \in {"blank", "notjson"}
               THEN UNCHANGED <<stdinPc, dispatching>>
               ELSE /\ stdinPc' = "dispatching"
                    /\ dispatching' = dispatching + 1
    /\ UNCHANGED <<notFoundPort, shutdownSeen, detachFailed, mainVars,
                   startupVars, running,
                   shutdown_event, registry, output, announcerVars, cbCount,
                   cbPc, cbArg, runVars>>

\* self.handle_command(command) runs and returns (lines 503, 431-487)
HandleCommand ==
    /\ Alive
    /\ stdinPc = "dispatching"
    /\ \E oc \in OutcomesFor(lastLine) :
          LET r == handle_command(lastLine, oc, running, shutdown_event,
                                  destinations, rnode_interfaces, identity)
          IN  /\ running' = r.running
              /\ shutdown_event' = r.shutdown_event
              /\ destinations' = r.destinations
              /\ rnode_interfaces' = r.rnode_interfaces
              /\ Write(r.out)
              /\ lastEmit' = r.out
              /\ lastReturn' = r.ret
              /\ detachFailed' = DetachFailedAfter(lastLine, oc, rnode_interfaces,
                                                   detachFailed)
    /\ notFoundPort' =
           IF /\ lastLine.kind = "object"
              /\ lastLine.type = "remove_rnode"
              /\ lastLine.port \notin Ports(rnode_interfaces)
           THEN lastLine.port ELSE notFoundPort
    /\ shutdownSeen' =
           (shutdownSeen \/ (lastLine.kind = "object" /\ lastLine.type = "shutdown"))
    /\ stdinPc' = "reading"
    /\ dispatching' = dispatching - 1
    /\ UNCHANGED <<linesRead, lastLine, malformedSeen, mainVars, startupVars,
                   links, announcerVars, cbCount, cbPc, cbArg, runVars>>

\* ------------------------------------------- callbacks, on stack threads
\* The stack calls a registered callback on one of its own threads; the
\* statements of the callback are steps of that thread.

\* packet_received is called (line 215)
DeliverPacket(t, data) ==
    /\ Alive
    /\ "packet" \in callbacks
    /\ FreeThread(t)
    /\ Inputs < MaxInputs
    /\ cbCount' = cbCount + 1
    /\ cbPc' = [cbPc EXCEPT ![t] = "packet_emit"]
    /\ cbArg' = [cbArg EXCEPT ![t] = Call("packet", data, <<>>, <<>>)]
    /\ UNCHANGED <<mainVars, startupVars, running, shutdown_event, registry,
                   output, readerVars, announcerVars, dispatching, runVars>>

\* self.send_message("message", ...) and return (lines 227-233)
PacketEmit(t) ==
    /\ Alive
    /\ cbPc[t] = "packet_emit"
    /\ packet_received(identity, cbArg[t].data)
    /\ cbPc' = [cbPc EXCEPT ![t] = "idle"]
    /\ cbArg' = [cbArg EXCEPT ![t] = NoCall]
    /\ UNCHANGED <<mainVars, startupVars, running, shutdown_event, registry,
                   readerVars, announcerVars, cbCount, dispatching, runVars>>

\* link_established is called (line 238)
DeliverLink(t, peer, link_id) ==
    /\ Alive
    /\ "link" \in callbacks
    /\ FreeThread(t)
    /\ Inputs < MaxInputs
    /\ cbCount' = cbCount + 1
    /\ cbPc' = [cbPc EXCEPT ![t] = "link_store"]
    /\ cbArg' = [cbArg EXCEPT ![t] = Call("link", <<>>, peer, link_id)]
    /\ UNCHANGED <<mainVars, startupVars, running, shutdown_event, registry,
                   output, readerVars, announcerVars, dispatching, runVars>>

\* the store of line 242 as a setdefault: the first link of a peer is kept
LinkStore_keeping_first(t) ==
    /\ Alive
    /\ cbPc[t] = "link_store"
    /\ links' = IF HexRep(cbArg[t].peer) \in DOMAIN links THEN links
                ELSE MapPut(links, HexRep(cbArg[t].peer), cbArg[t].link_id)
    /\ cbPc' = [cbPc EXCEPT ![t] = "link_emit"]
    /\ UNCHANGED <<mainVars, startupVars, running, shutdown_event,
                   destinations, rnode_interfaces, output, readerVars,
                   announcerVars, cbCount, dispatching, cbArg, runVars>>

\* self.links[hexrep(link.destination.hash)] = link (line 242)
LinkStore(t) ==
    /\ Alive
    /\ cbPc[t] = "link_store"
    /\ links' = MapPut(links, HexRep(cbArg[t].peer), cbArg[t].link_id)
    /\ cbPc' = [cbPc EXCEPT ![t] = "link_emit"]
    /\ UNCHANGED <<mainVars, startupVars, running, shutdown_event,
                   destinations, rnode_interfaces, output, readerVars,
                   announcerVars, cbCount, dispatching, cbArg, runVars>>

\* self.send_message("link_established", ...) and return (lines 244-247)
LinkEmit(t) ==
    /\ Alive
    /\ cbPc[t] = "link_emit"
    /\ send_message("link_established",
                    [destination_hash |-> HexRep(cbArg[t].peer),
                     link_id |-> HexRep(cbArg[t].link_id)])
    /\ cbPc' = [cbPc EXCEPT ![t] = "idle"]
    /\ cbArg' = [cbArg EXCEPT ![t] = NoCall]
    /\ UNCHANGED <<mainVars, startupVars, running, shutdown_event, registry,
                   readerVars, announcerVars, cbCount, dispatching, runVars>>

\* ------------------------------------------------------- specification
Main ==
    \/ InitStack
    \/ LoadOrCreateIdentity
    \/ CreateDestination
    \/ SetPacketCallback
    \/ SetLinkCallback
    \/ SendInit
    \/ ExitFailed
    \/ StartAnnounceThread
    \/ StartStdinThread
    \/ Settle
    \/ FirstAnnounce
    \/ LeaveLoop
    \/ SetShutdownEvent
    \/ JoinStdin
    \/ JoinAnnounce

Announcer ==
    \/ AnnounceWhile
    \/ AnnounceWaitSignalled
    \/ AnnounceWaitElapsed
    \/ AnnounceCheck
    \/ AnnounceAgain

Reader ==
    \/ \E line \in Lines : \E oc \in OutcomesFor(line) : ReadLine(line, oc)
    \/ StdinEOF
    \/ StdinError

Callbacks ==
    \/ \E data \in PacketInputs : PacketReceived(data)
    \/ \E peer \in PeerHashes : \E id \in LinkIds : LinkEstablished(peer, id)

Next == Main \/ Announcer \/ Reader \/ Callbacks

Spec == Init /\ [][Next]_vars

\* The same program with the reader's call of handle_command and the
\* statements of the callbacks as separate steps of their threads
StepReader ==
    \/ \E line \in Lines : TakeLine(line)
    \/ HandleCommand
    \/ StdinEOF
    \/ StdinError

StackCallbacks ==
    \/ \E t \in StackThreads : \E data \in PacketInputs : DeliverPacket(t, data)
    \/ \E t \in StackThreads : PacketEmit(t)
    \/ \E t \in StackThreads : \E peer \in PeerHashes : \E id \in LinkIds :
          DeliverLink(t, peer, id)
    \/ \E t \in StackThreads : LinkStore(t)
    \/ \E t \in StackThreads : LinkEmit(t)

\* Startup, run after run on one identity path. The identity and its file are
\* touched by initialize_rns only, so what follows startup is left out.
RerunNext ==
    \/ InitStack
    \/ LoadOrCreateIdentity
    \/ CreateDestination
    \/ SetPacketCallback
    \/ SetLinkCallback
    \/ SendInit
    \/ ExitFailed
    \/ Rerun

RerunSpec == Init /\ [][RerunNext]_vars

\* The bridge with a host that sends add_rnode and remove_rnode commands
\* only, and a stack that delivers nothing
TransportReader ==
    \/ \E line \in TransportLines : \E oc \in OutcomesFor(line) :
          ReadTransportLine(line, oc)
    \/ StdinError

TransportNext == Main \/ TransportReader

TransportSpec == Init /\ [][TransportNext]_vars

StepNext == Main \/ Announcer \/ StepReader \/ StackCallbacks

StepSpec == Init /\ [][StepNext]_vars

\* The main path is a thread that keeps being scheduled; so is the announcer.
\* Nothing obliges the host to write a line or the stack to deliver anything.
FairSpec == Spec /\ WF_vars(Main) /\ WF_vars(Announcer)

\* ------------------------------------------------------------- properties
\* a send command whose destination_hash and text are present and non-empty
ValidSend(line) ==
    /\ line.kind = "object"
    /\ line.type = "send"
    /\ line.destination_hash # <<>>
    /\ line.text # ""

\* the reader takes a step while the bridge is running (only ReadLine changes
\* linesRead): it processes the line lastLine'
Dispatch == running /\ linesRead' = linesRead + 1

\* C1: every valid send command processed while running writes exactly one
\* event, which is send_success or send_failed and carries the command's
\* destination_hash, whatever the stack does and even when the hash is not hex.
C1_SendWritesOneResult ==
    [][(Dispatch /\ ValidSend(lastLine')) =>
          /\ outCount' = outCount + 1
          /\ Len(outTail') = 1
          /\ outTail'[1].type \in {"send_success", "send_failed"}
          /\ outTail'[1].data.destination_hash = lastLine'.destination_hash]_vars

\* a send whose hash is not hex has been answered by one send_failed
C1_Witness ==
    /\ ValidSend(lastLine)
    /\ ~FromHexOk(lastLine.destination_hash)
    /\ Len(lastEmit) = 1
    /\ lastEmit[1].type = "send_failed"
    /\ lastEmit[1].data.destination_hash = lastLine.destination_hash

\* C2: a line that is not JSON, or is JSON but not an object, writes no event,
\* changes no registry map and leaves the reader reading and the bridge
\* running; a ping on a later line writes exactly one pong with empty data.
C2_MalformedLineSkipped ==
    [][Dispatch =>
          /\ lastLine' \in MalformedLines =>
                /\ UNCHANGED <<output, registry>>
                /\ stdinPc' = "reading"
                /\ running'
          /\ (malformedSeen /\ lastLine' = Command("ping")) =>
                /\ outCount' = outCount + 1
                /\ outTail' = <<Event("pong", EmptyData)>>
                /\ UNCHANGED registry]_vars

\* a ping read after a malformed line has been answered by a pong
C2_Witness ==
    /\ malformedSeen
    /\ lastLine = Command("ping")
    /\ lastEmit = <<Event("pong", EmptyData)>>
    /\ stdinPc = "reading"

\* C3: once a shutdown command has been processed, nothing more is written to
\* the output stream.
C3_NoEventAfterShutdown == [][shutdownSeen => outCount' = outCount]_vars

\* C4: after a shutdown command the main control path reaches stopped with
\* exit code 0, whether or not the reader and the announcer have exited.
C4_ShutdownStops == shutdownSeen ~> (mainPc = "stopped" /\ exitCode = 0)

\* the main path has stopped while the reader is still blocked on stdin and
\* the announcer has not exited
C4_Witness ==
    /\ shutdownSeen
    /\ mainPc = "stopped"
    /\ stdinPc = "reading"
    /\ annPc \in {"while", "wait", "check", "announce"}

\* C5: no announce_sent is written before the settle delay has completed.
C5_NoAnnounceBeforeSettled ==
    mainPc = "settling" =>
        ~(Len(outTail) = 1 /\ outTail[1].type = "announce_sent")

\* the startup steps after the failed one have not run
LaterStepsNotRun ==
    /\ failedStep \in {"stack_init", "identity_load"} =>
          identity = <<>> /\ callbacks = {}
    /\ failedStep = "identity_persist" => identityFile = <<>> /\ callbacks = {}
    /\ failedStep = "destination_create" => callbacks = {}
    /\ failedStep = "callback_registration" => callbacks \subseteq {"packet"}

\* C6: after a failed startup step no later step has run, nothing but what
\* callbacks delivered was written (so no init event), neither thread was
\* started, no line was read, the running flag is false and the process ends
\* with exit code 1.
C6_FailedStartupExposesNothing ==
    failedStep # "none" =>
        /\ mainPc \in {"init_failed", "exited"}
        /\ mainPc = "exited" => exitCode = 1
        /\ LaterStepsNotRun
        /\ outCount = cbCount
        /\ ~(Len(outTail) = 1 /\ outTail[1].type = "init")
        /\ annPc = "notstarted"
        /\ stdinPc = "notstarted"
        /\ linesRead = 0
        /\ ~running

\* registering the second callback failed after a packet had been delivered
\* to the first, and the process has exited with code 1
C6_Witness ==
    /\ failedStep = "callback_registration"
    /\ callbacks = {"packet"}
    /\ cbCount > 0
    /\ mainPc = "exited"
    /\ exitCode = 1

\* C7: when the input stream ends while the bridge is running, the main
\* control path reaches stopped.
C7_EndOfInputStops == (stdinPc = "eof") ~> (mainPc = "stopped")

\* C8: an add_rnode for a port already tracked leaves every registry map as
\* it was, writes no event and returns False.
C8_DuplicateAddRejected ==
    [][( /\ Dispatch
          /\ lastLine' \in AddLines
          /\ lastLine'.port \in Ports(rnode_interfaces) ) =>
              /\ UNCHANGED <<registry, output>>
              /\ lastReturn' = "False"]_vars

\* a second add_rnode, asking for another frequency than the tracked one, was
\* refused
C8_Witness ==
    /\ lastLine \in AddLines
    /\ lastReturn = "False"
    /\ lastEmit = <<>>
    /\ \E i \in 1..Len(rnode_interfaces) :
          /\ rnode_interfaces[i].port = lastLine.port
          /\ rnode_interfaces[i].config.frequency #
                 ConfigGet(lastLine.config, "frequency", DefaultFrequency)

\* the ports a transports_list event enumerates
ListedPorts(e) == {e.data.transports[i].port : i \in 1..Len(e.data.transports)}

\* C9: a remove_rnode for a port that is not tracked returns False without
\* raising, writes no event and leaves the registry as it was; list_transports
\* writes one transports_list that enumerates the tracked ports, so not that
\* port, and whose total is their number.
C9_RemoveUnknownIsNoOp ==
    [][Dispatch =>
          /\ ( /\ lastLine' \in RemoveLines
               /\ lastLine'.port # ""
               /\ lastLine'.port \notin Ports(rnode_interfaces) ) =>
                /\ UNCHANGED <<registry, output>>
                /\ lastReturn' = "False"
                /\ stdinPc' = "reading"
                /\ running'
          /\ lastLine' = Command("list_transports") =>
                /\ outCount' = outCount + 1
                /\ Len(outTail') = 1
                /\ outTail'[1].type = "transports_list"
                /\ ListedPorts(outTail'[1]) = Ports(rnode_interfaces)
                /\ outTail'[1].data.total = Cardinality(Ports(rnode_interfaces))
                /\ notFoundPort \notin Ports(rnode_interfaces) =>
                      notFoundPort \notin ListedPorts(outTail'[1])
                /\ UNCHANGED registry]_vars

\* a list_transports after a remove_rnode that found nothing
C9_Witness ==
    /\ notFoundPort # ""
    /\ lastLine = Command("list_transports")
    /\ lastReturn = "none"
    /\ Len(lastEmit) = 1
    /\ lastEmit[1].type = "transports_list"
    /\ notFoundPort \notin ListedPorts(lastEmit[1])
    /\ lastEmit[1].data.total = Len(rnode_interfaces)

\* the lowercase form of a hash string
ToLower(s) ==
    [i \in 1..Len(s) |->
        IF IsHexChar(s[i]) THEN HexDigits[HexValue(s[i]) + 1] ELSE s[i]]

\* C10: every key of the remote-destination cache and of the link cache is
\* lowercase hexadecimal, and hashes that differ only in letter case share one
\* cache entry.
C10_CacheKeysLowercase ==
    /\ \A k \in DOMAIN destinations : FromHexOk(k) /\ k = ToLower(k)
    /\ \A k \in DOMAIN links : FromHexOk(k) /\ k = ToLower(k)
    /\ \A k1, k2 \in DOMAIN destinations : ToLower(k1) = ToLower(k2) => k1 = k2

\* C11: commands are handled one at a time and in arrival order. At most one
\* call of handle_command is in progress; the reader takes the next line only
\* when none is; and the events of a command are written by the call that
\* handles it, which is the call for the line read last, so before any later
\* line is read.
C11_OneCommandAtATime ==
    [][/\ dispatching' <= 1
       /\ linesRead' = linesRead + 1 => dispatching = 0
       /\ (stdinPc = "dispatching" /\ stdinPc' # "dispatching") =>
             /\ dispatching = 1
             /\ dispatching' = 0
             /\ linesRead' = linesRead
             /\ lastLine' = lastLine
             /\ outCount' = outCount + Len(lastEmit')
             /\ lastEmit' # <<>> => outTail' = lastEmit'
       /\ (stdinPc = "dispatching" /\ stdinPc' = "dispatching") =>
             UNCHANGED <<linesRead, lastLine, lastEmit, dispatching>>]_vars

\* the second line is being handled after the first one's pong was written
C11_Witness ==
    /\ linesRead = 2
    /\ stdinPc = "dispatching"
    /\ dispatching = 1
    /\ lastLine \in SendLines
    /\ outTail = <<Event("pong", EmptyData)>>

\* C12: once a shutdown command has been processed the running flag stays
\* false, and a line read afterwards is not dispatched: the reader leaves its
\* loop, no registry map changes and nothing is written.
C12_NoIntakeAfterShutdown ==
    [][shutdownSeen =>
          /\ ~running'
          /\ linesRead' = linesRead + 1 =>
                /\ UNCHANGED <<registry, output, lastLine, lastEmit, lastReturn>>
                /\ stdinPc' = "exited"]_vars

\* a line arrived after the shutdown command and ended the reader's loop
C12_Witness ==
    /\ shutdownSeen
    /\ lastLine = Command("shutdown")
    /\ linesRead = 2
    /\ stdinPc = "exited"
    /\ ~running

C14_LoadOrCreateIdempotent ==
    [][/\ identityFile # <<>> => identityFile' = identityFile
       /\ (mainPc = "stack_online" /\ mainPc' = "identity_ready") =>
             /\ identity' = identityFile'
             /\ identityFile = <<>> => identity' = NewIdentity
             /\ prevIdentity # <<>> => HexRep(identity') = HexRep(prevIdentity)
       /\ (mainPc = "callbacks_registered" /\ mainPc' = "initialized") =>
             outTail'[1].data.identity.hash = HexRep(prevIdentity)]_vars

\* the identity generated and persisted by the first run was loaded by the
\* third, which would have generated another
C14_Witness ==
    /\ runs = 2
    /\ mainPc = "initialized"
    /\ outTail[1].data.identity.hash = HexRep(<<17>>)
    /\ identity = <<17>>
    /\ identityFile = <<17>>
    /\ NewIdentity # identity

\* the registry maps the handling of a command line reads or writes
MapsOf(line) ==
    IF line.kind # "object" THEN {}
    ELSE IF line.type = "send" THEN {"destinations"}
    ELSE IF line.type \in {"add_rnode", "remove_rnode", "list_transports"}
         THEN {"rnode_interfaces"}
    ELSE {}

\* the threads of control that stand at an access to the registry map m: the
\* reader while it handles a command that uses m, a stack thread at the
\* store of line 242
AtAccess(m) ==
    (IF stdinPc = "dispatching" /\ m \in MapsOf(lastLine) THEN 1 ELSE 0)
    + Cardinality({t \in StackThreads : cbPc[t] = "link_store" /\ m = "links"})

\* C15: no two threads of control are at an access to the same registry map
\* at the same time.
C15_RegistryAccessExclusive ==
    \A m \in {"destinations", "links", "rnode_interfaces"} : AtAccess(m) <= 1

\* the record of port p in the transport registry rn
Tracked(rn, p) == rn[CHOOSE i \in 1..Len(rn) : rn[i].port = p]

\* C16: an add_rnode for a port that is not tracked writes exactly one event,
\* transport_added or transport_error, for that port; afterwards the port is
\* tracked if and only if transport_added was written, then as connected,
\* with both counters 0 and the config the event carries, after the records
\* that were there; when the creation raises the registry is as it was.
C16_AddReportsOutcome ==
    [][( /\ Dispatch
          /\ lastLine' \in AddLines
          /\ lastLine'.port # ""
          /\ lastLine'.port \notin Ports(rnode_interfaces) ) =>
              /\ outCount' = outCount + 1
              /\ Len(outTail') = 1
              /\ outTail'[1].type \in {"transport_added", "transport_error"}
              /\ outTail'[1].data.port = lastLine'.port
              /\ lastLine'.port \in Ports(rnode_interfaces') <=>
                     outTail'[1].type = "transport_added"
              /\ outTail'[1].type = "transport_added" =>
                    /\ Len(rnode_interfaces') = Len(rnode_interfaces) + 1
                    /\ SubSeq(rnode_interfaces', 1, Len(rnode_interfaces)) =
                           rnode_interfaces
                    /\ Tracked(rnode_interfaces', lastLine'.port).connected
                    /\ Tracked(rnode_interfaces', lastLine'.port).messages_sent = 0
                    /\ Tracked(rnode_interfaces', lastLine'.port).messages_received = 0
                    /\ Tracked(rnode_interfaces', lastLine'.port).config =
                           outTail'[1].data.config
                    /\ lastReturn' = "True"
              /\ outTail'[1].type = "transport_error" =>
                    /\ rnode_interfaces' = rnode_interfaces
                    /\ lastReturn' = "False"
              /\ UNCHANGED <<destinations, links>>]_vars

\* with one port tracked, adding another failed: one transport_error was
\* written and the registry still holds the first port only
C16_Witness ==
    /\ lastLine \in AddLines
    /\ Len(lastEmit) = 1
    /\ lastEmit[1].type = "transport_error"
    /\ Len(rnode_interfaces) = 1
    /\ lastLine.port \notin Ports(rnode_interfaces)

\* the event link_established writes for a link to peer with identifier link_id
LinkEvent(peer, link_id) ==
    Event("link_established",
          [destination_hash |-> HexRep(peer), link_id |-> HexRep(link_id)])

Cached(dests, h) == \E k \in DOMAIN dests : FromHex(k) = FromHex(h)

\* C18: the remote-destination cache only grows. No step removes or replaces
\* an entry, and only a valid send changes the cache. A send whose hash is not
\* hexadecimal adds nothing; a send to an address that has an entry adds
\* nothing; the first send to an address adds one entry for it (a send that
\* ends in an exception of the stack is left aside).
C18_DestinationCacheGrowsOnly ==
    [][/\ \A k \in DOMAIN destinations :
             k \in DOMAIN destinations' /\ destinations'[k] = destinations[k]
       /\ destinations' # destinations => (Dispatch /\ ValidSend(lastLine'))
       /\ (Dispatch /\ ValidSend(lastLine')) =>
             LET h == lastLine'.destination_hash
             IN  /\ ~FromHexOk(h) => destinations' = destinations
                 /\ (FromHexOk(h) /\ Cached(destinations, h)) =>
                       destinations' = destinations
                 /\ ( /\ FromHexOk(h)
                      /\ ~Cached(destinations, h)
                      /\ outTail'[1] #
                            Event("send_failed", [destination_hash |-> h,
                                                  error |-> "exception"]) ) =>
                       /\ Cached(destinations', h)
                       /\ Cardinality(DOMAIN destinations') =
                              Cardinality(DOMAIN destinations) + 1]_vars

\* C19: the announcer announces on a wake by the elapsed interval that finds
\* the bridge running, leaves its loop on a wake by the shutdown signal, and
\* performs no announce once the signal is set.
C19_NoAnnounceAfterSignal ==
    [][/\ (annPc = "check" /\ running /\ annPc' # "check") => annPc' = "announce"
       /\ (annPc = "wait" /\ shutdown_event /\ annPc' # "wait") => annPc' = "exited"
       /\ shutdown_event => ~(annPc = "announce" /\ annPc' # "announce")]_vars

\* C20: whenever the shutdown signal is set the running flag is false; the
\* signal is never cleared; the running flag goes from false to true only at
\* the end of initialize_rns; and once the flag was cleared, by a shutdown
\* command or by an error of the reader, the signal eventually is set.
C20_SignalFollowsRunning ==
    /\ [](shutdown_event => ~running)
    /\ [][/\ shutdown_event => shutdown_event'
          /\ (~running /\ running') =>
                (mainPc = "callbacks_registered" /\ mainPc' = "initialized")]_vars
    /\ (shutdownSeen \/ stdinPc = "error") ~> shutdown_event

\* the reader failed, no shutdown command was read, and the main path has set
\* the signal
C20_Witness ==
    /\ stdinPc = "error"
    /\ ~shutdownSeen
    /\ ~running
    /\ shutdown_event

\* C21: the init event is the first event of a successful startup and is
\* written once: when initialize_rns writes it nothing has been written yet,
\* and no other step writes an init event.
C21_InitIsFirstEvent ==
    [][/\ (mainPc = "callbacks_registered" /\ mainPc' = "initialized") =>
             /\ outCount = 0
             /\ outCount' = 1
             /\ outTail' = <<Event("init", InitData)>>
       /\ (outCount' # outCount /\ outTail'[1].type = "init") =>
             (mainPc = "callbacks_registered" /\ mainPc' = "initialized")]_vars

\* C22: a remove_rnode command for a tracked port writes transport_removed
\* exactly when the port leaves the transport registry; when detach raises
\* the registry is unchanged and nothing is written; a port whose detach
\* raised stays tracked, and an add_rnode for it is rejected as a duplicate.
C22_RemovedIffReported ==
    [][/\ (/\ Dispatch
           /\ lastLine' \in RemoveLines
           /\ lastLine'.port \in Ports(rnode_interfaces)) =>
              /\ \/ /\ outCount' = outCount + 1
                    /\ outTail' = <<Event("transport_removed",
                                          [type |-> "rnode",
                                           port |-> lastLine'.port])>>
                    /\ lastLine'.port \notin Ports(rnode_interfaces')
                    /\ rnode_interfaces' =
                          SelectSeq(rnode_interfaces,
                                    LAMBDA t : t.port # lastLine'.port)
                    /\ lastReturn' = "True"
                    /\ detachFailed' # lastLine'.port
                 \/ /\ UNCHANGED <<output, rnode_interfaces>>
                    /\ lastEmit' = <<>>
                    /\ lastReturn' = "False"
                    /\ detachFailed' = lastLine'.port
              /\ UNCHANGED <<destinations, links>>
       /\ detachFailed' # "" => detachFailed' \in Ports(rnode_interfaces')
       /\ (/\ Dispatch
           /\ lastLine' \in AddLines
           /\ detachFailed # ""
           /\ lastLine'.port = detachFailed) =>
              /\ UNCHANGED <<registry, output>>
              /\ lastEmit' = <<>>
              /\ lastReturn' = "False"]_vars

\* an add_rnode, a remove_rnode of it whose detach raised, and a second
\* add_rnode of the port, which was rejected with the entry still in place
C22_Witness ==
    /\ linesRead = 3
    /\ lastLine \in AddLines
    /\ lastLine.port = detachFailed
    /\ detachFailed \in Ports(rnode_interfaces)
    /\ lastReturn = "False"
    /\ lastEmit = <<>>

====
